---- MODULE Spec2Model ----
(***************************************************************************)
(* Model of bot.py: the /events command group of the Discord bot.          *)
(*                                                                         *)
(* Strings are sequences of one-character strings, so that split, strip,   *)
(* join and strptime are computed character by character as Python does.   *)
(* Every awaited platform call (send a message, create or delete a         *)
(* channel, create a scheduled event) is one step whose outcome the        *)
(* platform decides: it succeeds or raises.                                *)
(***************************************************************************)
EXTENDS Integers, Sequences, FiniteSets, TLC

(***************************************************************************)
(* Bounds of the model.                                                    *)
(***************************************************************************)
\* number of text channels the create-event handlers may add to the guild
MaxNewChannels == 1

(***************************************************************************)
(* Python string operations.                                               *)
(***************************************************************************)
Digits == {"0", "1", "2", "3", "4", "5", "6", "7", "8", "9"}

DigitVal ==
    "0" :> 0 @@ "1" :> 1 @@ "2" :> 2 @@ "3" :> 3 @@ "4" :> 4 @@
    "5" :> 5 @@ "6" :> 6 @@ "7" :> 7 @@ "8" :> 8 @@ "9" :> 9

\* str.isspace for the characters of the model's alphabet
IsSpace(c) == c = " "

AllDigits(s) == \A k \in 1..Len(s) : s[k] \in Digits

\* int() of a string of decimal digits
RECURSIVE DecimalValue(_)
DecimalValue(s) ==
    IF Len(s) = 0 THEN 0
    ELSE 10 * DecimalValue(SubSeq(s, 1, Len(s) - 1)) + DigitVal[s[Len(s)]]

\* index of the first occurrence of character c in s, 0 when there is none
RECURSIVE FindFrom(_, _, _)
FindFrom(s, c, k) ==
    IF k > Len(s) THEN 0
    ELSE IF s[k] = c THEN k
    ELSE FindFrom(s, c, k + 1)

Find(s, c) == FindFrom(s, c, 1)

\* s.split(c): the list of the pieces between the occurrences of c
RECURSIVE Split(_, _)
Split(s, c) ==
    LET k == Find(s, c)
    IN  IF k = 0 THEN <<s>>
        ELSE <<SubSeq(s, 1, k - 1)>> \o Split(SubSeq(s, k + 1, Len(s)), c)

\* c.join(parts)
RECURSIVE Join(_, _)
Join(parts, c) ==
    IF Len(parts) = 0 THEN <<>>
    ELSE IF Len(parts) = 1 THEN parts[1]
    ELSE parts[1] \o <<c>> \o Join(Tail(parts), c)

\* s.lstrip(), s.rstrip(), s.strip()
RECURSIVE LStrip(_)
LStrip(s) ==
    IF Len(s) > 0 /\ IsSpace(s[1]) THEN LStrip(Tail(s)) ELSE s

RECURSIVE RStrip(_)
RStrip(s) ==
    IF Len(s) > 0 /\ IsSpace(s[Len(s)]) THEN RStrip(SubSeq(s, 1, Len(s) - 1)) ELSE s

Strip(s) == RStrip(LStrip(s))

\* s.startswith(p)
StartsWith(s, p) == Len(s) >= Len(p) /\ SubSeq(s, 1, Len(p)) = p

\* p in s
Contains(s, p) ==
    \E k \in 1..(Len(s) - Len(p) + 1) : SubSeq(s, k, k + Len(p) - 1) = p

\* parts[-3:]
LastThree(parts) ==
    IF Len(parts) <= 3 THEN parts ELSE SubSeq(parts, Len(parts) - 2, Len(parts))

(***************************************************************************)
(* datetime: a naive or UTC datetime is a record of its calendar fields.   *)
(***************************************************************************)
IsLeap(y) == (y % 4 = 0 /\ y % 100 # 0) \/ y % 400 = 0

DaysInMonth(y, m) ==
    IF m = 2 THEN (IF IsLeap(y) THEN 29 ELSE 28)
    ELSE IF m \in {4, 6, 9, 11} THEN 30
    ELSE 31

DateTime(y, m, d, h, mi) == [year |-> y, month |-> m, day |-> d, hour |-> h, minute |-> mi]

\* what strptime yields in place of a datetime when it raises ValueError
\* (no datetime has year 0)
ValueError == DateTime(0, 0, 0, 0, 0)

\* a datetime variable that is still None
NoTime == DateTime(0 - 1, 0, 0, 0, 0)

\* datetime(...) raises ValueError for a field out of range
ValidFields(y, m, d, h, mi) ==
    /\ y \in 1..9999
    /\ m \in 1..12
    /\ d \in 1..DaysInMonth(y, m)
    /\ h \in 0..23
    /\ mi \in 0..59

\* a < b on datetimes of the same timezone
Before(a, b) ==
    \/ a.year < b.year
    \/ a.year = b.year /\ a.month < b.month
    \/ a.year = b.year /\ a.month = b.month /\ a.day < b.day
    \/ a.year = b.year /\ a.month = b.month /\ a.day = b.day /\ a.hour < b.hour
    \/ a.year = b.year /\ a.month = b.month /\ a.day = b.day /\ a.hour = b.hour
          /\ a.minute < b.minute

\* dt + timedelta(days=1)
NextDay(dt) ==
    IF dt.day < DaysInMonth(dt.year, dt.month) THEN [dt EXCEPT !.day = dt.day + 1]
    ELSE IF dt.month < 12 THEN [dt EXCEPT !.day = 1, !.month = dt.month + 1]
    ELSE [dt EXCEPT !.day = 1, !.month = 1, !.year = dt.year + 1]

\* dt + datetime.timedelta(hours=1)
PlusOneHour(dt) ==
    IF dt.hour < 23 THEN [dt EXCEPT !.hour = dt.hour + 1]
    ELSE NextDay([dt EXCEPT !.hour = 0])

(***************************************************************************)
(* datetime.strptime: the directives' regular expressions of _strptime.    *)
(***************************************************************************)
\* %d : 3[0-1]|[1-2]\d|0[1-9]|[1-9]
MatchesDay(s) ==
    /\ Len(s) \in {1, 2}
    /\ AllDigits(s)
    /\ DecimalValue(s) \in 1..31

\* %m : 1[0-2]|0[1-9]|[1-9]
MatchesMonth(s) ==
    /\ Len(s) \in {1, 2}
    /\ AllDigits(s)
    /\ DecimalValue(s) \in 1..12

\* %Y : \d\d\d\d
MatchesYear(s) == Len(s) = 4 /\ AllDigits(s)

\* %H : 2[0-3]|[0-1]\d|\d
MatchesHour(s) ==
    /\ Len(s) \in {1, 2}
    /\ AllDigits(s)
    /\ DecimalValue(s) \in 0..23

\* %M : [0-5]\d|\d
MatchesMinute(s) ==
    /\ Len(s) \in {1, 2}
    /\ AllDigits(s)
    /\ DecimalValue(s) \in 0..59

\* datetime.datetime.strptime(s, "%d-%m-%Y"): the datetime, or ValueError
StrptimeDate(s) ==
    LET parts == Split(s, "-")
    IN  IF /\ Len(parts) = 3
           /\ MatchesDay(parts[1])
           /\ MatchesMonth(parts[2])
           /\ MatchesYear(parts[3])
           /\ ValidFields(DecimalValue(parts[3]), DecimalValue(parts[2]),
                          DecimalValue(parts[1]), 0, 0)
        THEN DateTime(DecimalValue(parts[3]), DecimalValue(parts[2]),
                      DecimalValue(parts[1]), 0, 0)
        ELSE ValueError

\* datetime.datetime.strptime(s, "%d-%m-%Y %H:%M"): the blank of the format
\* matches one or more blanks; the datetime, or ValueError
StrptimeDateTime(s) ==
    LET parts == Split(s, "-")
        rest  == IF Len(parts) = 3 THEN parts[3] ELSE <<>>
        yy    == SubSeq(rest, 1, 4)
        after == SubSeq(rest, 5, Len(rest))
        hm    == Split(LStrip(after), ":")
    IN  IF /\ Len(parts) = 3
           /\ MatchesDay(parts[1])
           /\ MatchesMonth(parts[2])
           /\ Len(rest) >= 4
           /\ MatchesYear(yy)
           /\ Len(after) > 0
           /\ IsSpace(after[1])
           /\ Len(hm) = 2
           /\ MatchesHour(hm[1])
           /\ MatchesMinute(hm[2])
           /\ ValidFields(DecimalValue(yy), DecimalValue(parts[2]),
                          DecimalValue(parts[1]), DecimalValue(hm[1]),
                          DecimalValue(hm[2]))
        THEN DateTime(DecimalValue(yy), DecimalValue(parts[2]),
                      DecimalValue(parts[1]), DecimalValue(hm[1]),
                      DecimalValue(hm[2]))
        ELSE ValueError

\* int(s) of a string succeeds: blanks around it and one sign are accepted
IsIntLiteral(s) ==
    LET t    == Strip(s)
        body == IF Len(t) > 0 /\ t[1] \in {"+", "-"} THEN Tail(t) ELSE t
    IN  Len(body) > 0 /\ AllDigits(body)

\* int(s) of a string for which it succeeds
IntOf(s) ==
    LET t    == Strip(s)
        body == IF Len(t) > 0 /\ t[1] \in {"+", "-"} THEN Tail(t) ELSE t
    IN  IF Len(t) > 0 /\ t[1] = "-" THEN 0 - DecimalValue(body)
        ELSE DecimalValue(body)

(***************************************************************************)
(* Sample strings.                                                         *)
(***************************************************************************)
Prefix == <<"w", "o", "r", "k", "t", "h", "r", "e", "a", "d", "-">>

Gala == <<"G", "a", "l", "a">>
AB   == <<"a", "-", "b">>

Date_01_06_2000 == <<"0", "1", "-", "0", "6", "-", "2", "0", "0", "0">>
Date_01_06_2025 == <<"0", "1", "-", "0", "6", "-", "2", "0", "2", "5">>
Date_01_06_2099 == <<"0", "1", "-", "0", "6", "-", "2", "0", "9", "9">>
Date_31_12_2024 == <<"3", "1", "-", "1", "2", "-", "2", "0", "2", "4">>
\* the 31st of June and a month 13: DD-MM-YYYY in shape, no calendar date
Date_31_06_2025 == <<"3", "1", "-", "0", "6", "-", "2", "0", "2", "5">>
Date_01_13_2025 == <<"0", "1", "-", "1", "3", "-", "2", "0", "2", "5">>
\* not DD-MM-YYYY in shape
Date_Soon       == <<"s", "o", "o", "n">>

Time_10_00           == <<"1", "0", ":", "0", "0">>
Time_9_05            == <<"9", ":", "0", "5">>
Time_23_30           == <<"2", "3", ":", "3", "0">>
Time_10_00_12_00     == <<"1", "0", ":", "0", "0", "-", "1", "2", ":", "0", "0">>
Time_09_15_09_45     == <<"0", "9", ":", "1", "5", "-", "0", "9", ":", "4", "5">>
\* unparsable start, unparsable end, both, an hour 25, an empty end part
Time_xx_12_00        == <<"x", "x", "-", "1", "2", ":", "0", "0">>
Time_10_00_late      == <<"1", "0", ":", "0", "0", "-", "l", "a", "t", "e">>
Time_noon            == <<"n", "o", "o", "n">>
Time_25_00           == <<"2", "5", ":", "0", "0">>
Time_10_00_dash      == <<"1", "0", ":", "0", "0", "-">>

Name_general  == <<"g", "e", "n", "e", "r", "a", "l">>
Name_archive  == <<"a", "r", "c", "h", "i", "v", "e", "-">> \o Date_01_06_2000
Name_gala2000 == Prefix \o Gala \o <<"-">> \o Date_01_06_2000
Name_gala2099 == Prefix \o Gala \o <<"-">> \o Date_01_06_2099
Name_ab2000   == Prefix \o AB \o <<"-">> \o Date_01_06_2000
Name_galaBad  == Prefix \o Gala \o <<"-">> \o Date_31_06_2025

Role_42 == <<"4", "2">>
Role_SA == <<"S", "A">>

\* config.get of a key the file does not hold
NoValue   == <<"None">>
NoChannel == 0

\* interaction.channel when it is None
NoInvokedChannel == [id |-> NoChannel, name |-> <<>>]
NoError   == [type |-> "none", at |-> "none", text |-> "none"]

(***************************************************************************)
(* Inputs: the configuration values, the users, the arguments, the guild's *)
(* channels at start and the clock readings a run draws from.              *)
(***************************************************************************)
Role(id, name) == [id |-> id, name |-> name]

\* discord.Member with its roles
Member(roles) == [member |-> TRUE, roles |-> roles]

\* discord.User: an interaction outside a guild
DMUser == [member |-> FALSE, roles |-> {}]

StaffById   == Member({Role(1, <<"e">>), Role(42, <<"s">>)})
StaffByName == Member({Role(1, <<"e">>), Role(7, Role_SA)})
NameIsDigits == Member({Role(1, <<"e">>), Role(8, Role_42)})
Plain       == Member({Role(1, <<"e">>)})

Args(n, d, t, w, e) ==
    [event_name |-> n, date |-> d, time |-> t,
     create_work_thread |-> w, create_event |-> e]

NoArgs == Args(<<>>, <<>>, <<>>, FALSE, FALSE)

Clock_2000_06_01_0000 == DateTime(2000, 6, 1, 0, 0)
Clock_2000_06_01_0001 == DateTime(2000, 6, 1, 0, 1)
Clock_2025_03_01_1200 == DateTime(2025, 3, 1, 12, 0)

\* the inputs of the sequential specification: one interaction, every sample
WideInputs ==
    [configs  |-> {NoValue, <<>>, Role_42, Role_SA},
     users    |-> {StaffById, StaffByName, NameIsDigits, Plain, DMUser},
     guilds   |-> BOOLEAN,
     names    |-> {Gala},
     dates    |-> {Date_01_06_2025, Date_31_12_2024, Date_31_06_2025,
                   Date_01_13_2025, Date_Soon, <<" ">> \o Date_01_06_2000},
     times    |-> {Time_10_00, Time_9_05, Time_23_30, Time_10_00_12_00, Time_09_15_09_45,
                   Time_xx_12_00, Time_10_00_late, Time_noon, Time_25_00,
                   Time_10_00_dash, <<" ">> \o Time_10_00 \o <<" ">>},
     clocks   |-> {Clock_2000_06_01_0000, Clock_2000_06_01_0001, Clock_2025_03_01_1200},
     slots    |-> {1}]

\* the inputs of the concurrent specification: two interactions of staff
\* members in an available guild, fewer samples
NarrowInputs ==
    [configs  |-> {Role_42},
     users    |-> {StaffById},
     guilds   |-> {TRUE},
     names    |-> {AB},
     dates    |-> {Date_01_06_2000},
     times    |-> {Time_10_00, Time_xx_12_00},
     clocks   |-> {Clock_2000_06_01_0000, Clock_2025_03_01_1200},
     slots    |-> {1, 2}]

Slots == {1, 2}

\* the guild's channels when the bot starts: id -> name
InitialChannels ==
    1 :> Name_general @@ 2 :> Name_archive @@ 3 :> Name_gala2000 @@
    4 :> Name_gala2099 @@ 5 :> Name_ab2000 @@ 6 :> Name_galaBad

(***************************************************************************)
(* State.                                                                  *)
(***************************************************************************)
VARIABLES
    config,      \* the configuration record read at start: its SARoleID value
    channels,    \* the guild's live channels: id -> name
    created,     \* number of channels create-event has added
    removed,     \* the channels deleted so far: records [id, name, by, cmd]
    events,      \* the guild's scheduled events: records [by, name, start, end]
    clock,       \* the current UTC time
    inter        \* the interactions: slot -> the handler's state

vars == <<config, channels, created, removed, events, clock, inter>>

Idle ==
    [cmd            |-> "none",
     pc             |-> "idle",
     user           |-> DMUser,
     guild          |-> FALSE,
     channel        |-> NoInvokedChannel,
     args           |-> NoArgs,
     responded      |-> FALSE,
     replies        |-> <<>>,
     error          |-> NoError,
     handled        |-> FALSE,
     logged         |-> FALSE,
     thread_channel |-> NoChannel,
     start_dt       |-> NoTime,
     end_dt         |-> NoTime,
     scheduled      |-> [start |-> NoTime, end |-> NoTime],
     now            |-> NoTime,
     todo           |-> <<>>,
     deleted_channels |-> <<>>]

InitWith(ins) ==
    /\ config \in {[SARoleID |-> v] : v \in ins.configs}
    /\ channels = InitialChannels
    /\ created = 0
    /\ removed = {}
    /\ events = {}
    /\ clock \in ins.clocks
    /\ inter = [i \in Slots |-> Idle]

\* a message the user receives: the initial response or a follow-up
Reply(via, text) == [via |-> via, text |-> text, error |-> FALSE]

\* f"Error: {error}", the message of the global error handler
ErrorReply(via, err) == [via |-> via, text |-> err.text, error |-> TRUE]

Error(type, at, text) == [type |-> type, at |-> at, text |-> text]

\* an exception leaves the handler (or the guard): the command tree calls the
\* global error handler with it
Raise(i, err) ==
    inter' = [inter EXCEPT ![i].error = err, ![i].pc = "on_error"]

(***************************************************************************)
(* The clock advances.                                                     *)
(***************************************************************************)
Tick(ins) ==
    /\ \E t \in ins.clocks :
        /\ Before(clock, t)
        /\ clock' = t
    /\ UNCHANGED <<config, channels, created, removed, events, inter>>

(***************************************************************************)
(* An interaction arrives: a user invokes one of the three commands.       *)
(***************************************************************************)
\* channels create-event invocations in flight may still add
Reserved ==
    Cardinality({j \in Slots :
        /\ inter[j].cmd = "create-event"
        /\ inter[j].args.create_work_thread
        /\ inter[j].guild
        /\ inter[j].pc \in {"check", "ce_respond", "ce_thread"}})

Invoke(i, ins) ==
    /\ i \in ins.slots
    /\ inter[i].pc = "idle"
    /\ \E u \in ins.users, g \in ins.guilds :
        \/ \E n \in ins.names, d \in ins.dates, t \in ins.times, w \in BOOLEAN, e \in BOOLEAN :
            /\ (w /\ g) => created + Reserved < MaxNewChannels
            /\ inter' = [inter EXCEPT ![i] =
                   [Idle EXCEPT !.cmd = "create-event", !.pc = "check", !.user = u,
                                !.guild = g, !.args = Args(n, d, t, w, e)]]
        \/ \E c \in {[id |-> k, name |-> channels[k]] : k \in DOMAIN channels}
                         \cup {NoInvokedChannel} :
            /\ inter' = [inter EXCEPT ![i] =
                   [Idle EXCEPT !.cmd = "delete-work-thread", !.pc = "check", !.user = u,
                                !.guild = g, !.channel = c]]
        \/ inter' = [inter EXCEPT ![i] =
               [Idle EXCEPT !.cmd = "delete-all-thread", !.pc = "check", !.user = u,
                            !.guild = g]]
    /\ UNCHANGED <<config, channels, created, removed, events, clock>>

(***************************************************************************)
(* _check_sa_role                                                          *)
(***************************************************************************)
\* the try/except of the guard: ids when int(sa_value) succeeds, names when
\* it raises
RoleAllowed(sa_value, roles) ==
    IF IsIntLiteral(sa_value)
    THEN \E r \in roles : r.id = IntOf(sa_value)
    ELSE \E r \in roles : r.name = sa_value

\* a slip in the guard: `allowed` is computed and never tested
CheckSaRoleUntested(cfg, user) ==
    IF cfg.SARoleID = NoValue \/ cfg.SARoleID = <<>>
    THEN "SA role not configured on the bot."
    ELSE IF ~user.member
    THEN "This command can only be used in a server."
    ELSE "pass"

\* the text of the CheckFailure the guard raises, or "pass"
CheckSaRole(cfg, user) ==
    IF cfg.SARoleID = NoValue \/ cfg.SARoleID = <<>>
    THEN "SA role not configured on the bot."
    ELSE IF ~user.member
    THEN "This command can only be used in a server."
    ELSE IF ~RoleAllowed(cfg.SARoleID, user.roles)
    THEN "You must have the SA role to use this command."
    ELSE "pass"

\* the first step of each command's handler
Entry(cmd) ==
    CASE cmd = "create-event"       -> "ce_respond"
      [] cmd = "delete-work-thread" -> "dwt_delete"
      [] cmd = "delete-all-thread"  -> "dat_begin"

Check(i) ==
    /\ inter[i].pc = "check"
    /\ LET verdict == CheckSaRole(config, inter[i].user)
       IN  IF verdict = "pass"
           THEN inter' = [inter EXCEPT ![i].pc = Entry(inter[i].cmd)]
           ELSE Raise(i, Error("CheckFailure", "check", verdict))
    /\ UNCHANGED <<config, channels, created, removed, events, clock>>

(***************************************************************************)
(* create_event                                                            *)
(***************************************************************************)
\* where the handler goes once the work-thread step is over
AfterThread(a) == IF a.create_event THEN "ce_parse_start" ELSE "done"

\* where the handler goes once the first reply is sent
AfterRespond(a) == IF a.create_work_thread THEN "ce_thread" ELSE AfterThread(a)

\* channel_name = f"workthread-{event_name}-{date}"
ChannelName(a) == Prefix \o a.event_name \o <<"-">> \o a.date

\* start_part, end_part of time_str: split at the first "-", each stripped;
\* end_part is None (here the empty string) when there is no "-"
StartPart(time) ==
    LET time_str == Strip(time)
        k        == Find(time_str, "-")
    IN  IF k = 0 THEN time_str ELSE Strip(SubSeq(time_str, 1, k - 1))

\* a slip in the split: the end part is taken from the start of the string
EndPartFromStart(time) ==
    LET time_str == Strip(time)
        k        == Find(time_str, "-")
    IN  IF k = 0 THEN <<>> ELSE Strip(SubSeq(time_str, 1, k - 1))

EndPart(time) ==
    LET time_str == Strip(time)
        k        == Find(time_str, "-")
    IN  IF k = 0 THEN <<>> ELSE Strip(SubSeq(time_str, k + 1, Len(time_str)))

\* the string try_parse is given: f"{date_str} {part}"
DtStr(date, part) == Strip(date) \o <<" ">> \o part

\* a slip in the except branch: the " 00:00" is left out of the string
MidnightWithoutTime(date) == StrptimeDateTime(Strip(date))

\* the except branch of try_parse: strptime(f"{date_str} 00:00", ...)
Midnight(date) == StrptimeDateTime(DtStr(date, <<"0", "0", ":", "0", "0">>))

\* if end_part: a part was given and is not empty
HasEndPart(time) == Len(EndPart(time)) > 0

\* line 125: await interaction.response.send_message(response, ephemeral=True)
CE_Respond(i) ==
    /\ inter[i].pc = "ce_respond"
    /\ \E ok \in BOOLEAN :
        IF ok
        THEN inter' = [inter EXCEPT
                 ![i].responded = TRUE,
                 ![i].replies = Append(@, Reply("response", "Creating event")),
                 ![i].pc = AfterRespond(inter[i].args)]
        ELSE Raise(i, Error("HTTPException", "response.send_message", "send failed"))
    /\ UNCHANGED <<config, channels, created, removed, events, clock>>

\* lines 131-133: no guild object, the follow-up saying so
CE_ThreadNoGuild(i) ==
    /\ inter[i].pc = "ce_thread"
    /\ ~inter[i].guild
    /\ \E ok \in BOOLEAN :
        IF ok
        THEN inter' = [inter EXCEPT
                 ![i].replies = Append(@, Reply("followup", "Guild not available to create the work thread.")),
                 ![i].pc = AfterThread(inter[i].args)]
        ELSE Raise(i, Error("HTTPException", "followup.send", "send failed"))
    /\ UNCHANGED <<config, channels, created, removed, events, clock>>

\* line 143: await guild_obj.create_text_channel(channel_name, ...)
CE_CreateChannel(i) ==
    /\ inter[i].pc = "ce_thread"
    /\ inter[i].guild
    /\ \E ok \in BOOLEAN :
        IF ok
        THEN LET id == Cardinality(DOMAIN InitialChannels) + created + 1
             IN  /\ channels' = (id :> ChannelName(inter[i].args)) @@ channels
                 /\ created' = created + 1
                 /\ inter' = [inter EXCEPT ![i].thread_channel = id,
                                           ![i].pc = "ce_thread_send"]
        ELSE /\ Raise(i, Error("HTTPException", "create_text_channel", "create failed"))
             /\ UNCHANGED <<channels, created>>
    /\ UNCHANGED <<config, removed, events, clock>>

\* line 144: await thread_channel.send(...); the platform answers NotFound
\* for a channel that no longer exists
CE_ThreadSend(i) ==
    /\ inter[i].pc = "ce_thread_send"
    /\ IF inter[i].thread_channel \notin DOMAIN channels
       THEN Raise(i, Error("NotFound", "thread_channel.send", "Unknown Channel"))
       ELSE \E ok \in BOOLEAN :
            IF ok
            THEN inter' = [inter EXCEPT ![i].pc = "ce_thread_followup"]
            ELSE Raise(i, Error("HTTPException", "thread_channel.send", "send failed"))
    /\ UNCHANGED <<config, channels, created, removed, events, clock>>

\* line 145: await interaction.followup.send("Work thread created: ...")
CE_ThreadFollowup(i) ==
    /\ inter[i].pc = "ce_thread_followup"
    /\ \E ok \in BOOLEAN :
        IF ok
        THEN inter' = [inter EXCEPT
                 ![i].replies = Append(@, Reply("followup", "Work thread created")),
                 ![i].pc = AfterThread(inter[i].args)]
        ELSE Raise(i, Error("HTTPException", "followup.send", "send failed"))
    /\ UNCHANGED <<config, channels, created, removed, events, clock>>

\* try_parse, lines 163-171, for the string built from `part`, its result
\* stored in start_dt (isStart) or in end_dt, the handler going on at `next`:
\* the parsed datetime, or the warning follow-up and then midnight of
\* date_str, whose strptime raises again when date_str itself is invalid
TryParse(i, part, isStart, next) ==
    LET a      == inter[i].args
        parsed == StrptimeDateTime(DtStr(a.date, part))
        store(dt) == IF isStart
                     THEN [inter EXCEPT ![i].start_dt = dt, ![i].pc = next]
                     ELSE [inter EXCEPT ![i].end_dt = dt, ![i].pc = next]
        warned(dt) == IF isStart
                     THEN [inter EXCEPT ![i].start_dt = dt, ![i].pc = next,
                              ![i].replies = Append(@, Reply("followup", "Time format invalid"))]
                     ELSE [inter EXCEPT ![i].end_dt = dt, ![i].pc = next,
                              ![i].replies = Append(@, Reply("followup", "Time format invalid"))]
    IN  IF parsed # ValueError
        THEN inter' = store(parsed)
        ELSE \E ok \in BOOLEAN :
             IF ~ok
             THEN Raise(i, Error("HTTPException", "followup.send", "send failed"))
             ELSE IF Midnight(a.date) = ValueError
             THEN inter' = [inter EXCEPT
                      ![i].replies = Append(@, Reply("followup", "Time format invalid")),
                      ![i].error = Error("ValueError", "try_parse", "time data does not match format"),
                      ![i].pc = "on_error"]
             ELSE inter' = warned(Midnight(a.date))

\* line 174: start_dt = await try_parse(f"{date_str} {start_part}")
CE_ParseStart(i) ==
    /\ inter[i].pc = "ce_parse_start"
    /\ TryParse(i, StartPart(inter[i].args.time), TRUE, "ce_parse_end")
    /\ UNCHANGED <<config, channels, created, removed, events, clock>>

\* lines 177-180: the end part when there is one, else start + 1 hour
CE_ParseEnd(i) ==
    /\ inter[i].pc = "ce_parse_end"
    /\ IF HasEndPart(inter[i].args.time)
       THEN TryParse(i, EndPart(inter[i].args.time), FALSE, "ce_event")
       ELSE inter' = [inter EXCEPT ![i].end_dt = PlusOneHour(inter[i].start_dt),
                                   ![i].pc = "ce_event"]
    /\ UNCHANGED <<config, channels, created, removed, events, clock>>

\* lines 189-191: no guild object, the follow-up saying so
CE_EventNoGuild(i) ==
    /\ inter[i].pc = "ce_event"
    /\ ~inter[i].guild
    /\ \E ok \in BOOLEAN :
        IF ok
        THEN inter' = [inter EXCEPT
                 ![i].replies = Append(@, Reply("followup", "Guild not available to create the event.")),
                 ![i].pc = "done"]
        ELSE Raise(i, Error("HTTPException", "followup.send", "send failed"))
    /\ UNCHANGED <<config, channels, created, removed, events, clock>>

\* lines 193-203: await guild_obj.create_scheduled_event(...): the event is
\* created, or the call raises AttributeError or another exception, each
\* caught by the try around it
CE_CreateEvent(i) ==
    /\ inter[i].pc = "ce_event"
    /\ inter[i].guild
    /\ LET call == [start |-> inter[i].start_dt, end |-> inter[i].end_dt]
       IN  \E outcome \in {"created", "AttributeError", "Exception"} :
            /\ inter' = [inter EXCEPT
                   ![i].scheduled = call,
                   ![i].pc = CASE outcome = "created"        -> "ce_event_created"
                               [] outcome = "AttributeError" -> "ce_event_unsupported"
                               [] outcome = "Exception"      -> "ce_event_failed"]
            /\ events' = IF outcome = "created"
                         THEN events \cup {[by |-> i, name |-> inter[i].args.event_name,
                                            start |-> call.start, end |-> call.end]}
                         ELSE events
    /\ UNCHANGED <<config, channels, created, removed, clock>>

\* line 204, inside the try: the follow-up "Discord event created"; a failure
\* of this send is caught by `except Exception` too
CE_EventCreatedReply(i) ==
    /\ inter[i].pc = "ce_event_created"
    /\ \E ok \in BOOLEAN :
        IF ok
        THEN inter' = [inter EXCEPT
                 ![i].replies = Append(@, Reply("followup", "Discord event created")),
                 ![i].pc = "done"]
        ELSE inter' = [inter EXCEPT ![i].pc = "ce_event_failed"]
    /\ UNCHANGED <<config, channels, created, removed, events, clock>>

\* line 207, in `except AttributeError`
CE_EventUnsupportedReply(i) ==
    /\ inter[i].pc = "ce_event_unsupported"
    /\ \E ok \in BOOLEAN :
        IF ok
        THEN inter' = [inter EXCEPT
                 ![i].replies = Append(@, Reply("followup", "discord.py version does not support creating scheduled events.")),
                 ![i].pc = "done"]
        ELSE Raise(i, Error("HTTPException", "followup.send", "send failed"))
    /\ UNCHANGED <<config, channels, created, removed, events, clock>>

\* line 209, in `except Exception`
CE_EventFailedReply(i) ==
    /\ inter[i].pc = "ce_event_failed"
    /\ \E ok \in BOOLEAN :
        IF ok
        THEN inter' = [inter EXCEPT
                 ![i].replies = Append(@, Reply("followup", "Failed to create discord event")),
                 ![i].pc = "done"]
        ELSE Raise(i, Error("HTTPException", "followup.send", "send failed"))
    /\ UNCHANGED <<config, channels, created, removed, events, clock>>

(***************************************************************************)
(* delete_work_thread                                                      *)
(***************************************************************************)
\* line 216: channel and "workthread-" in channel.name
IsWorkThread(channel) ==
    /\ channel # NoInvokedChannel
    /\ Contains(channel.name, Prefix)

\* the platform deletes channel c for interaction i
Delete(c, i) ==
    /\ channels' = [d \in (DOMAIN channels) \ {c} |-> channels[d]]
    /\ removed' = removed \cup {[id |-> c, name |-> channels[c], by |-> i,
                                 cmd |-> inter[i].cmd]}

\* lines 215-217: await channel.delete() when the channel is a work thread;
\* the handler ends without a reply when it is not
DWT_Delete(i) ==
    /\ inter[i].pc = "dwt_delete"
    /\ LET c == inter[i].channel.id
       IN  IF ~IsWorkThread(inter[i].channel)
           THEN /\ inter' = [inter EXCEPT ![i].pc = "done"]
                /\ UNCHANGED <<channels, removed>>
           ELSE IF c \notin DOMAIN channels
           THEN /\ Raise(i, Error("NotFound", "channel.delete", "Unknown Channel"))
                /\ UNCHANGED <<channels, removed>>
           ELSE \E ok \in BOOLEAN :
                IF ok
                THEN /\ Delete(c, i)
                     /\ inter' = [inter EXCEPT ![i].pc = "dwt_respond"]
                ELSE /\ Raise(i, Error("HTTPException", "channel.delete", "delete failed"))
                     /\ UNCHANGED <<channels, removed>>
    /\ UNCHANGED <<config, created, events, clock>>

\* line 218: await interaction.response.send_message("Work thread channel ... deleted.")
DWT_Respond(i) ==
    /\ inter[i].pc = "dwt_respond"
    /\ \E ok \in BOOLEAN :
        IF ok
        THEN inter' = [inter EXCEPT
                 ![i].responded = TRUE,
                 ![i].replies = Append(@, Reply("response", "Work thread channel deleted.")),
                 ![i].pc = "done"]
        ELSE Raise(i, Error("HTTPException", "response.send_message", "send failed"))
    /\ UNCHANGED <<config, channels, created, removed, events, clock>>

(***************************************************************************)
(* delete_all_work_threads                                                 *)
(***************************************************************************)
\* line 237: date_str = "-".join(parts)
DateStr(parts, date) == Join(parts, "-")

\* a slip in the loop: the ValueError of strptime is not caught ("raise")
ScanChannelUncaught(name, now) ==
    IF ~StartsWith(name, Prefix) THEN "skip"
    ELSE LET parts == Split(name, "-")
             date  == LastThree(parts)
         IN  IF Len(date) # 3 THEN "skip"
             ELSE LET event_date == StrptimeDate(DateStr(parts, date))
                  IN  IF event_date = ValueError THEN "raise"
                      ELSE IF Before(event_date, now) THEN "delete"
                      ELSE "keep"

\* lines 232-244, one channel of the loop: "delete" (the date parsed and is
\* before now), "keep" (it parsed and is not), "invalid" (strptime raised
\* ValueError, caught and printed), "skip" (not a work thread name); an
\* exception the loop does not catch would be "raise"
ScanChannel(name, now) ==
    IF ~StartsWith(name, Prefix) THEN "skip"
    ELSE LET parts == Split(name, "-")
             date  == LastThree(parts)
         IN  IF Len(date) # 3 THEN "skip"
             ELSE LET event_date == StrptimeDate(DateStr(parts, date))
                  IN  IF event_date = ValueError THEN "invalid"
                      ELSE IF Before(event_date, now) THEN "delete"
                      ELSE "keep"

\* guild_obj.channels: the list of the guild's channels, by id
RECURSIVE ChannelList(_)
ChannelList(ids) ==
    IF ids = {} THEN <<>>
    ELSE LET c == CHOOSE x \in ids : \A y \in ids : x <= y
         IN  <<[id |-> c, name |-> channels[c]]>> \o ChannelList(ids \ {c})

\* lines 224-227: no guild object, the reply saying so
DAT_NoGuild(i) ==
    /\ inter[i].pc = "dat_begin"
    /\ ~inter[i].guild
    /\ \E ok \in BOOLEAN :
        IF ok
        THEN inter' = [inter EXCEPT
                 ![i].responded = TRUE,
                 ![i].replies = Append(@, Reply("response", "Guild not available to delete work threads.")),
                 ![i].pc = "done"]
        ELSE Raise(i, Error("HTTPException", "response.send_message", "send failed"))
    /\ UNCHANGED <<config, channels, created, removed, events, clock>>

\* lines 229-231: now, deleted_channels = [], the loop starts on the guild's
\* channel list
DAT_Begin(i) ==
    /\ inter[i].pc = "dat_begin"
    /\ inter[i].guild
    /\ inter' = [inter EXCEPT ![i].now = clock,
                              ![i].todo = ChannelList(DOMAIN channels),
                              ![i].deleted_channels = <<>>,
                              ![i].pc = "dat_scan"]
    /\ UNCHANGED <<config, channels, created, removed, events, clock>>

\* lines 231-244: one iteration of the loop
DAT_Scan(i) ==
    /\ inter[i].pc = "dat_scan"
    /\ inter[i].todo # <<>>
    /\ LET channel == Head(inter[i].todo)
           verdict == ScanChannel(channel.name, inter[i].now)
       IN  IF verdict = "raise"
           THEN /\ Raise(i, Error("ValueError", "strptime", "time data does not match format"))
                /\ UNCHANGED <<channels, removed>>
           ELSE IF verdict # "delete"
           THEN /\ inter' = [inter EXCEPT ![i].todo = Tail(@)]
                /\ UNCHANGED <<channels, removed>>
           ELSE IF channel.id \notin DOMAIN channels
           THEN /\ Raise(i, Error("NotFound", "channel.delete", "Unknown Channel"))
                /\ UNCHANGED <<channels, removed>>
           ELSE \E ok \in BOOLEAN :
                IF ok
                THEN /\ Delete(channel.id, i)
                     /\ inter' = [inter EXCEPT
                            ![i].todo = Tail(@),
                            ![i].deleted_channels = Append(@, channel.name)]
                ELSE /\ Raise(i, Error("HTTPException", "channel.delete", "delete failed"))
                     /\ UNCHANGED <<channels, removed>>
    /\ UNCHANGED <<config, created, events, clock>>

\* line 245: await interaction.response.send_message("Deleted work thread channels: ...")
\* (the backslash inside this f-string needs Python 3.12 or later)
DAT_Respond(i) ==
    /\ inter[i].pc = "dat_scan"
    /\ inter[i].todo = <<>>
    /\ \E ok \in BOOLEAN :
        IF ok
        THEN inter' = [inter EXCEPT
                 ![i].responded = TRUE,
                 ![i].replies = Append(@, Reply("response", "Deleted work thread channels")),
                 ![i].pc = "done"]
        ELSE Raise(i, Error("HTTPException", "response.send_message", "send failed"))
    /\ UNCHANGED <<config, channels, created, removed, events, clock>>

(***************************************************************************)
(* on_app_command_error                                                    *)
(***************************************************************************)
\* line 254: await interaction.response.send_message(f"Error: {error}"); it
\* raises InteractionResponded when the interaction was already responded
\* to, and may fail at the platform; line 258 logs when the send went through
EH_Respond(i) ==
    /\ inter[i].pc = "on_error"
    /\ IF inter[i].responded
       THEN inter' = [inter EXCEPT ![i].pc = "on_error_followup"]
       ELSE \E ok \in BOOLEAN :
            IF ok
            THEN inter' = [inter EXCEPT
                     ![i].responded = TRUE,
                     ![i].replies = Append(@, ErrorReply("response", inter[i].error)),
                     ![i].handled = TRUE,
                     ![i].logged = TRUE,
                     ![i].pc = "done"]
            ELSE inter' = [inter EXCEPT ![i].pc = "on_error_followup"]
    /\ UNCHANGED <<config, channels, created, removed, events, clock>>

\* line 257, in `except Exception`: await interaction.followup.send(...);
\* when it raises, the exception leaves the error handler and line 258 is
\* not reached
EH_Followup(i) ==
    /\ inter[i].pc = "on_error_followup"
    /\ \E ok \in BOOLEAN :
        IF ok
        THEN inter' = [inter EXCEPT
                 ![i].replies = Append(@, ErrorReply("followup", inter[i].error)),
                 ![i].handled = TRUE,
                 ![i].logged = TRUE,
                 ![i].pc = "done"]
        ELSE inter' = [inter EXCEPT ![i].handled = TRUE, ![i].pc = "done"]
    /\ UNCHANGED <<config, channels, created, removed, events, clock>>

(***************************************************************************)
(* Specifications.                                                         *)
(***************************************************************************)
\* the steps a handler takes in a guild that is available
Handler(i) ==
    \/ Check(i)
    \/ CE_Respond(i)
    \/ CE_CreateChannel(i)
    \/ CE_ThreadSend(i)
    \/ CE_ThreadFollowup(i)
    \/ CE_ParseStart(i)
    \/ CE_ParseEnd(i)
    \/ CE_CreateEvent(i)
    \/ CE_EventCreatedReply(i)
    \/ CE_EventUnsupportedReply(i)
    \/ CE_EventFailedReply(i)
    \/ DWT_Delete(i)
    \/ DWT_Respond(i)
    \/ DAT_Begin(i)
    \/ DAT_Scan(i)
    \/ DAT_Respond(i)
    \/ EH_Respond(i)
    \/ EH_Followup(i)

\* the steps it takes when neither interaction.guild nor bot.get_guild
\* yields the guild
HandlerNoGuild(i) ==
    \/ CE_ThreadNoGuild(i)
    \/ CE_EventNoGuild(i)
    \/ DAT_NoGuild(i)

\* one interaction at a time, every sample input
Init == InitWith(WideInputs)

Next ==
    \/ Tick(WideInputs)
    \/ \E i \in Slots : Invoke(i, WideInputs)
    \/ \E i \in Slots : Handler(i)
    \/ \E i \in Slots : HandlerNoGuild(i)

Spec == Init /\ [][Next]_vars

\* two interactions whose handlers interleave at their awaits
InitConc == InitWith(NarrowInputs)

NextConc ==
    \/ Tick(NarrowInputs)
    \/ \E i \in Slots : Invoke(i, NarrowInputs)
    \/ \E i \in Slots : Handler(i)

SpecConc == InitConc /\ [][NextConc]_vars

(***************************************************************************)
(* What the specification's sentences mean, stated without the handlers'   *)
(* own parsing: dates and times are read by position.                      *)
(***************************************************************************)
TwoDigits(s, k) == 10 * DigitVal[s[k]] + DigitVal[s[k + 1]]

\* s is DD-MM-YYYY and names a calendar date
SpecValidDate(s) ==
    /\ Len(s) = 10
    /\ s[3] = "-" /\ s[6] = "-"
    /\ \A k \in {1, 2, 4, 5, 7, 8, 9, 10} : s[k] \in Digits
    /\ 100 * TwoDigits(s, 7) + TwoDigits(s, 9) >= 1
    /\ TwoDigits(s, 4) \in 1..12
    /\ TwoDigits(s, 1) \in 1..DaysInMonth(100 * TwoDigits(s, 7) + TwoDigits(s, 9),
                                          TwoDigits(s, 4))

\* s is HH:MM
SpecValidTime(s) ==
    /\ Len(s) = 5
    /\ s[3] = ":"
    /\ \A k \in {1, 2, 4, 5} : s[k] \in Digits
    /\ TwoDigits(s, 1) <= 23
    /\ TwoDigits(s, 4) <= 59

\* the date d (DD-MM-YYYY) at the time t (HH:MM), UTC
SpecAt(d, t) ==
    DateTime(100 * TwoDigits(d, 7) + TwoDigits(d, 9), TwoDigits(d, 4), TwoDigits(d, 1),
             TwoDigits(t, 1), TwoDigits(t, 4))

SpecMidnight(d) == SpecAt(d, <<"0", "0", ":", "0", "0">>)

\* s is S-E with S and E valid HH:MM
SpecValidRange(s) ==
    /\ Len(s) = 11
    /\ s[6] = "-"
    /\ SpecValidTime(SubSeq(s, 1, 5))
    /\ SpecValidTime(SubSeq(s, 7, 11))

\* a part of the time string that reads as hours and minutes: one or two
\* digits, a colon, one or two digits, in range
SpecReadsAsTime(part) ==
    \E k \in 2..3 :
        /\ Len(part) \in (k + 1)..(k + 2)
        /\ part[k] = ":"
        /\ \A j \in (1..Len(part)) \ {k} : part[j] \in Digits
        /\ DecimalValue(SubSeq(part, 1, k - 1)) <= 23
        /\ DecimalValue(SubSeq(part, k + 1, Len(part))) <= 59

\* the start part and the end part of a time string, blanks around them
\* dropped: what stands before and after its first "-"
SpecStartPart(s) == Strip(Split(Strip(s), "-")[1])

SpecEndPart(s) ==
    LET pieces == Split(Strip(s), "-")
    IN  IF Len(pieces) = 1 THEN <<>> ELSE Strip(Join(Tail(pieces), "-"))

\* minutes from 0001-01-01 00:00 to dt
RECURSIVE DaysBeforeMonth(_, _)
DaysBeforeMonth(y, m) ==
    IF m <= 1 THEN 0 ELSE DaysInMonth(y, m - 1) + DaysBeforeMonth(y, m - 1)

Minutes(dt) ==
    LET y    == dt.year - 1
        days == 365 * y + (y \div 4) - (y \div 100) + (y \div 400)
                + DaysBeforeMonth(dt.year, dt.month) + (dt.day - 1)
    IN  (days * 24 + dt.hour) * 60 + dt.minute

\* a channel name delete-all-thread is to delete at time now: workthread-
\* at its start, a valid DD-MM-YYYY at its end, that date before now
SpecExpired(name, now) ==
    /\ StartsWith(name, Prefix)
    /\ Len(name) >= Len(Prefix) + 10
    /\ SpecValidDate(SubSeq(name, Len(name) - 9, Len(name)))
    /\ Minutes(SpecMidnight(SubSeq(name, Len(name) - 9, Len(name)))) < Minutes(now)

\* the user holds the configured staff role, by id or by name
SpecHoldsRole(cfg, user) ==
    \E r \in user.roles :
        \/ IsIntLiteral(cfg.SARoleID) /\ r.id = IntOf(cfg.SARoleID)
        \/ r.name = cfg.SARoleID

SpecConfigured(cfg) == cfg.SARoleID # NoValue /\ cfg.SARoleID # <<>>

\* the configured role matched by id first, then by name
SpecGuardPasses(cfg, user) ==
    /\ SpecConfigured(cfg)
    /\ user.member
    /\ \/ IsIntLiteral(cfg.SARoleID) /\ \E r \in user.roles : r.id = IntOf(cfg.SARoleID)
       \/ \E r \in user.roles : r.name = cfg.SARoleID

AuthorizationTexts ==
    {"SA role not configured on the bot.",
     "This command can only be used in a server.",
     "You must have the SA role to use this command."}

Warning == Reply("followup", "Time format invalid")

RECURSIVE Count(_, _)
Count(seq, x) ==
    IF seq = <<>> THEN 0
    ELSE (IF Head(seq) = x THEN 1 ELSE 0) + Count(Tail(seq), x)

InSeq(seq, x) == \E k \in 1..Len(seq) : seq[k] = x

Checked(i) == inter[i].pc \notin {"idle", "check"}

(***************************************************************************)
(* C1  A create-event invocation by a user without the configured staff    *)
(* role (or with no role configured, or outside a guild) fails at the      *)
(* guard: the handler body never runs, so no reply of the handler, no      *)
(* channel and no scheduled event come from it whatever its arguments;     *)
(* the global error handler replies with the guard's text, as the initial  *)
(* response, or as a follow-up when the platform refused that, and the     *)
(* user gets nothing only when the platform refused both.                  *)
(***************************************************************************)
C1_UnauthorizedCreatesNothing ==
    \A i \in Slots :
        LET r == inter[i]
        IN  ( /\ r.cmd = "create-event"
              /\ Checked(i)
              /\ ~(SpecConfigured(config) /\ r.user.member
                     /\ SpecHoldsRole(config, r.user)) )
            => /\ r.error.type = "CheckFailure"
               /\ r.error.text \in AuthorizationTexts
               /\ r.pc \in {"on_error", "on_error_followup", "done"}
               /\ r.thread_channel = NoChannel
               /\ r.scheduled.start = NoTime
               /\ created = 0
               /\ channels = InitialChannels
               /\ events = {}
               /\ \A k \in 1..Len(r.replies) :
                      r.replies[k].error /\ r.replies[k].text = r.error.text
               /\ r.pc = "on_error" => r.replies = <<>>
               /\ r.pc = "done" =>
                      \/ r.replies = <<ErrorReply("response", r.error)>>
                      \/ r.replies = <<ErrorReply("followup", r.error)>>
                      \/ r.replies = <<>> /\ ~r.logged

C1_Witness ==
    \E i \in Slots :
        /\ inter[i].cmd = "create-event"
        /\ inter[i].user = Plain
        /\ config.SARoleID = Role_42
        /\ inter[i].args.create_work_thread
        /\ inter[i].args.create_event
        /\ inter[i].guild
        /\ inter[i].pc = "done"
        /\ inter[i].replies =
               <<ErrorReply("response",
                    Error("CheckFailure", "check",
                          "You must have the SA role to use this command."))>>

(***************************************************************************)
(* C2  When delete-all-thread has run to its reply, every channel whose    *)
(* name starts with workthread- and ends with a valid DD-MM-YYYY before    *)
(* the current UTC time is deleted and named in the reported list.         *)
(***************************************************************************)
C2_ExpiredThreadsDeleted ==
    \A i \in Slots :
        LET r == inter[i]
        IN  ( /\ r.cmd = "delete-all-thread"
              /\ r.pc = "done"
              /\ r.error = NoError
              /\ r.now # NoTime )
            => \A c \in DOMAIN InitialChannels :
                   SpecExpired(InitialChannels[c], r.now)
                   => /\ c \notin DOMAIN channels
                      /\ InSeq(r.deleted_channels, InitialChannels[c])

(***************************************************************************)
(* C3  delete-all-thread deletes no channel but one whose name starts with *)
(* workthread- and ends with a valid date before the time it read, it      *)
(* reports only channels it deleted, and a malformed date neither raises   *)
(* nor ends the loop: the reply is sent only after the whole list.         *)
(***************************************************************************)
C3_OnlyExpiredDeleted ==
    /\ \A d \in removed :
           d.cmd = "delete-all-thread" => SpecExpired(d.name, inter[d.by].now)
    /\ \A i \in Slots :
           LET r == inter[i]
           IN  r.cmd = "delete-all-thread"
               => /\ r.error.type # "ValueError"
                  /\ \A k \in 1..Len(r.deleted_channels) :
                         /\ SpecExpired(r.deleted_channels[k], r.now)
                         /\ \E d \in removed : d.by = i /\ d.name = r.deleted_channels[k]
                  /\ (r.pc = "done" /\ r.error = NoError) => r.todo = <<>>

C3_Witness ==
    \E i \in Slots :
        /\ inter[i].cmd = "delete-all-thread"
        /\ inter[i].pc = "done"
        /\ inter[i].error = NoError
        /\ inter[i].now = Clock_2025_03_01_1200
        /\ inter[i].todo = <<>>
        /\ \A c \in {1, 2, 4, 6} : c \in DOMAIN channels
        /\ \E c \in DOMAIN channels : c \notin DOMAIN InitialChannels

(***************************************************************************)
(* C4  Whenever create-event calls create_scheduled_event for a valid      *)
(* DD-MM-YYYY date D: with a time string S-E of two valid HH:MM the call   *)
(* has start = D at S and end = D at E; with a time string that has no end *)
(* part the end is one hour after the start (and the start is D at S when  *)
(* the string is a valid HH:MM). A created event carries the call's times. *)
(***************************************************************************)
C4_EventTimes ==
    /\ \A i \in Slots :
           LET a    == inter[i].args
               call == inter[i].scheduled
           IN  (call.start # NoTime /\ SpecValidDate(a.date))
               => /\ SpecValidRange(a.time)
                     => /\ call.start = SpecAt(a.date, SubSeq(a.time, 1, 5))
                        /\ call.end = SpecAt(a.date, SubSeq(a.time, 7, 11))
                  /\ SpecValidTime(a.time)
                     => call.start = SpecAt(a.date, a.time)
                  /\ Find(a.time, "-") = 0
                     => Minutes(call.end) = Minutes(call.start) + 60
    /\ \A e \in events :
           /\ inter[e.by].args.create_event
           /\ e.start = inter[e.by].scheduled.start
           /\ e.end = inter[e.by].scheduled.end

C4_Witness ==
    \E i \in Slots :
        /\ inter[i].args.date = Date_01_06_2025
        /\ inter[i].args.time = Time_10_00_12_00
        /\ [by |-> i, name |-> Gala,
            start |-> DateTime(2025, 6, 1, 10, 0),
            end |-> DateTime(2025, 6, 1, 12, 0)] \in events

(***************************************************************************)
(* C5  In create-event with a valid date, a start part, or an end part     *)
(* that is given, which does not read as hours and minutes is set to 00:00 *)
(* of that date, with one warning follow-up for each; the parse failure    *)
(* raises nothing, and a handler that ends without an exception has called *)
(* create_scheduled_event with these values (in an available guild).       *)
(***************************************************************************)
C5_TimeFallsBackToMidnight ==
    \A i \in Slots :
        LET r    == inter[i]
            a    == r.args
            badS == ~SpecReadsAsTime(SpecStartPart(a.time))
            badE == SpecEndPart(a.time) # <<>> /\ ~SpecReadsAsTime(SpecEndPart(a.time))
        IN  (r.cmd = "create-event" /\ SpecValidDate(a.date))
            => /\ r.error.type # "ValueError"
               /\ (r.start_dt # NoTime /\ badS)
                  => r.start_dt = SpecMidnight(a.date) /\ InSeq(r.replies, Warning)
               /\ (r.end_dt # NoTime /\ badE)
                  => r.end_dt = SpecMidnight(a.date) /\ InSeq(r.replies, Warning)
               /\ r.end_dt # NoTime
                  => Count(r.replies, Warning)
                       = (IF badS THEN 1 ELSE 0) + (IF badE THEN 1 ELSE 0)
               /\ r.scheduled.start # NoTime
                  => r.scheduled = [start |-> r.start_dt, end |-> r.end_dt]
               /\ (r.pc = "done" /\ r.error = NoError /\ a.create_event /\ r.guild)
                  => r.scheduled.start # NoTime

C5_Witness ==
    \E i \in Slots :
        /\ inter[i].args.date = Date_31_12_2024
        /\ inter[i].args.time = Time_xx_12_00
        /\ inter[i].pc = "done"
        /\ inter[i].error = NoError
        /\ InSeq(inter[i].replies, Warning)
        /\ inter[i].scheduled = [start |-> DateTime(2024, 12, 31, 0, 0),
                                 end |-> DateTime(2024, 12, 31, 12, 0)]

(***************************************************************************)
(* C6  A date that is not a valid DD-MM-YYYY is not fatal to create-event: *)
(* the handler raises nothing to the global error handler because of it.   *)
(***************************************************************************)
C6_BadDateNotFatal ==
    \A i \in Slots :
        (inter[i].cmd = "create-event" /\ ~SpecValidDate(Strip(inter[i].args.date)))
        => inter[i].error.type # "ValueError"

(***************************************************************************)
(* C7  A failure of create_text_channel, of the first message to the new   *)
(* channel or of create_scheduled_event is caught where it is called and   *)
(* never reaches the global error handler.                                 *)
(***************************************************************************)
C7_PlatformFailuresCaught ==
    \A i \in Slots :
        inter[i].cmd = "create-event"
        => inter[i].error.at \notin
               {"create_text_channel", "thread_channel.send", "create_scheduled_event"}

(***************************************************************************)
(* C8  For every error that reached the global error handler the user gets *)
(* at most one error message and the initial response is never sent twice, *)
(* and the error is logged once the handler is over, also when sending the *)
(* error message failed.                                                   *)
(***************************************************************************)
C8_ErrorAlwaysLogged ==
    \A i \in Slots :
        LET r == inter[i]
        IN  /\ Cardinality({k \in 1..Len(r.replies) : r.replies[k].via = "response"}) <= 1
            /\ Cardinality({k \in 1..Len(r.replies) : r.replies[k].error}) <= 1
            /\ (r.pc = "done" /\ r.error # NoError) => r.logged

(***************************************************************************)
(* C9  The guard passes exactly when the role is configured, the user is a *)
(* guild member and some role's id equals the configured value read as a   *)
(* number or, no id matching, some role's name equals the configured value.*)
(***************************************************************************)
C9_GuardByIdThenName ==
    \A i \in Slots :
        Checked(i)
        => (inter[i].error.type # "CheckFailure"
                <=> SpecGuardPasses(config, inter[i].user))

(***************************************************************************)
(* C10  Whatever the interleaving of two handlers, no channel delete and   *)
(* no channel send fails on a channel that is already deleted.             *)
(***************************************************************************)
C10_NoUseOfDeletedChannel ==
    \A i \in Slots : inter[i].error.type # "NotFound"

====
